---------------------------- MODULE Spec2Model ----------------------------
(***************************************************************************)
(* The two best-first searches of the repository:                          *)
(*   - day23.rs: find_minimal_score over burrow arrangements (GameState),  *)
(*     with the move generator generate_next_states;                       *)
(*   - day15.rs: path_find over a risk grid.                               *)
(* An iteration of a search's `while let Some(..) = open_nodes.pop()` loop *)
(* is a function of the search's state; an action takes one iteration, or  *)
(* a given number of them.                                                 *)
(***************************************************************************)
EXTENDS Integers, Sequences, FiniteSets, TLC

VARIABLES
    start,        \* day23: the arrangement handed to find_minimal_score
    field,        \* day15: the risk grid handed to path_find
    open_nodes,   \* the BinaryHeap of the running search: its Vec, in the heap's layout
    known_paths,  \* the HashMap state -> best known cumulative cost
    preds,        \* day23: the HashMap state -> (move cost, predecessor)
    pc,           \* "running" in the loop, "done" once returned, "panic" if it panicked
    result,       \* the Option returned: None or Some(cost)
    returned,     \* what the earlier calls on the same input returned, in order
    heuristic,    \* day15: "euclid", the heuristic of line 60, or "zero"
    injected,     \* the number of extra entries pushed into the running call's heap
    overflow_checks,  \* whether the build panics on integer overflow (as a debug
                  \* build does) or wraps (as a release build does)
    expanded      \* per state, how often the running call generated its neighbours,
                  \* how often of these for a popped entry costlier than the ledger,
                  \* and the ledger's value for the state at the latest of these

vars == <<start, field, open_nodes, known_paths, preds, pc, result,
          returned, heuristic, injected, overflow_checks, expanded>>

(***************************************************************************)
(* Option<T>                                                               *)
(***************************************************************************)
None == <<>>
Some(v) == <<v>>

(***************************************************************************)
(* Unsigned integers (usize, u32).  A value is kept as an integer n: n     *)
(* itself when n >= 0, and, when n < 0, the value 2^w + n that a           *)
(* subtraction wrapping below 0 leaves in a type of w bits (2^64 - 1 is    *)
(* kept as -1), which is beyond the integers at hand.  +, - and * on these *)
(* are the wrapping operations, as long as the values stay within 2^31 of  *)
(* 0 or of 2^w; unsigned_lt is the order of the values.  A build with      *)
(* overflow checks panics where a - b has a < b, one without wraps.        *)
(***************************************************************************)
unsigned_lt(a, b) == IF (a < 0) = (b < 0) THEN a < b ELSE b < 0
usize_sub_overflows(a, b) == unsigned_lt(a, b)
usize_wrapping_sub(a, b) == a - b

(***************************************************************************)
(* Rust ranges a..b (exclusive) as sets of indices.                        *)
(***************************************************************************)
Range(a, b) == a .. (b - 1)

(***************************************************************************)
(* day23.rs: Token                                                         *)
(***************************************************************************)
Token == {"A", "B", "C", "D"}
NoToken == "."

specific_cost(t) ==
    CASE t = "A" -> 1
      [] t = "B" -> 10
      [] t = "C" -> 100
      [] t = "D" -> 1000

target_room(t) ==
    CASE t = "A" -> 0
      [] t = "B" -> 1
      [] t = "C" -> 2
      [] t = "D" -> 3

from_room(room_id) ==
    CASE room_id = 0 -> "A"
      [] room_id = 1 -> "B"
      [] room_id = 2 -> "C"
      [] room_id = 3 -> "D"

room_token(room_id) ==
    CASE room_id = 0 -> "A"
      [] room_id = 1 -> "B"
      [] room_id = 2 -> "C"
      [] room_id = 3 -> "D"

(***************************************************************************)
(* day23.rs: GameState.  rooms[r + 1] is the Vec of room r, bottom first;  *)
(* hallway_spaces[h + 1] and hallway_storage[s + 1][l + 1] hold a token or *)
(* NoToken (Option::None).                                                 *)
(***************************************************************************)
new_empty(room_size) ==
    [ room_size       |-> room_size,
      rooms           |-> << <<>>, <<>>, <<>>, <<>> >>,
      hallway_spaces  |-> << NoToken, NoToken, NoToken >>,
      hallway_storage |-> << <<NoToken, NoToken>>, <<NoToken, NoToken>> >> ]

new_finished(room_size) ==
    [ new_empty(room_size) EXCEPT
        !.rooms = [ r \in 1..4 |-> [ i \in 1..room_size |-> from_room(r - 1) ] ] ]

room(s, room_id) == s.rooms[room_id + 1]
space(s, step) == s.hallway_spaces[step + 1]
storage_at(s, storage, storage_local) == s.hallway_storage[storage + 1][storage_local + 1]

\* lines 88 and 92: the subtraction panics in a build with overflow checks
room_cost_overflows(s, room_id) == usize_sub_overflows(s.room_size, Len(room(s, room_id)))
\* lines 87-89, where the subtraction does not panic
room_exit_cost(s, room_id) == usize_wrapping_sub(s.room_size, Len(room(s, room_id)))
room_enter_cost_after_push(s, room_id) == s.room_size - Len(room(s, room_id)) - 1
\* lines 91-93, where the subtraction does not panic
room_enter_cost(s, room_id) == usize_wrapping_sub(s.room_size, Len(room(s, room_id)))

last(v) == v[Len(v)]
room_pop_keeps(s, room_id) == s
room_pop(s, room_id) ==
    [ s EXCEPT !.rooms[room_id + 1] = SubSeq(@, 1, Len(@) - 1) ]
room_push(s, room_id, t) ==
    [ s EXCEPT !.rooms[room_id + 1] = Append(@, t) ]

\* lines 106-123: from a room into the left storage area (front, then back)
exit_left(s, room_id) ==
    LET token == last(room(s, room_id)) IN
    IF /\ storage_at(s, 0, 0) = NoToken
       /\ \A step \in Range(0, room_id) : space(s, step) = NoToken
    THEN << << (room_exit_cost(s, room_id) + 1 + 1 + 2 * room_id) * specific_cost(token),
               [ room_pop(s, room_id) EXCEPT !.hallway_storage[1][1] = token ] >> >>
         \o
         ( IF storage_at(s, 0, 1) = NoToken
           THEN << << (room_exit_cost(s, room_id) + 1 + 2 + 2 * room_id) * specific_cost(token),
                      [ room_pop(s, room_id) EXCEPT !.hallway_storage[1][2] = token ] >> >>
           ELSE << >> )
    ELSE << >>

exit_right_front_only(s, room_id) ==
    LET token == last(room(s, room_id)) IN
    IF /\ storage_at(s, 1, 0) = NoToken
       /\ \A step \in Range(room_id, 3) : space(s, step) = NoToken
    THEN << << (room_exit_cost(s, room_id) + 1 + 1 + 2 * (3 - room_id)) * specific_cost(token),
               [ room_pop(s, room_id) EXCEPT !.hallway_storage[2][1] = token ] >> >>
    ELSE << >>
\* lines 124-141: from a room into the right storage area (front, then back)
exit_right(s, room_id) ==
    LET token == last(room(s, room_id)) IN
    IF /\ storage_at(s, 1, 0) = NoToken
       /\ \A step \in Range(room_id, 3) : space(s, step) = NoToken
    THEN << << (room_exit_cost(s, room_id) + 1 + 1 + 2 * (3 - room_id)) * specific_cost(token),
               [ room_pop(s, room_id) EXCEPT !.hallway_storage[2][1] = token ] >> >>
         \o
         ( IF storage_at(s, 1, 1) = NoToken
           THEN << << (room_exit_cost(s, room_id) + 1 + 2 + 2 * (3 - room_id)) * specific_cost(token),
                      [ room_pop(s, room_id) EXCEPT !.hallway_storage[2][2] = token ] >> >>
           ELSE << >> )
    ELSE << >>

\* lines 143-162: from a room onto hallway space hallway_target
exit_space(s, room_id, hallway_target) ==
    LET token == last(room(s, room_id))
        step_range == IF hallway_target < room_id
                      THEN hallway_target .. (room_id - 1)
                      ELSE room_id .. hallway_target
    IN
    IF \E step \in step_range : space(s, step) # NoToken
    THEN << >>
    ELSE << << (room_exit_cost(s, room_id) + Cardinality(step_range) * 2) * specific_cost(token),
               [ room_pop(s, room_id) EXCEPT !.hallway_spaces[hallway_target + 1] = token ] >> >>

exit_room_also_sorted(s, room_id) ==
    IF room(s, room_id) = << >>
    THEN << >>
    ELSE exit_left(s, room_id) \o exit_right(s, room_id)
         \o exit_space(s, room_id, 0) \o exit_space(s, room_id, 1) \o exit_space(s, room_id, 2)
\* lines 97-164: the moves out of room room_id
exit_room(s, room_id) ==
    IF \A i \in 1..Len(room(s, room_id)) : room(s, room_id)[i] = room_token(room_id)
    THEN << >>   \* empty or properly sorted: continue
    ELSE exit_left(s, room_id) \o exit_right(s, room_id)
         \o exit_space(s, room_id, 0) \o exit_space(s, room_id, 1) \o exit_space(s, room_id, 2)

cannot_enter_when_full(s, target) == Len(room(s, target)) = s.room_size
\* lines 169-176 and 199-206: the target room is full or holds other types
cannot_enter(s, target) ==
    \/ Len(room(s, target)) = s.room_size
    \/ \E i \in 1..Len(room(s, target)) : target_room(room(s, target)[i]) # target

\* lines 166-193: from hallway space hallway_space into the target room
enter_from_space(s, hallway_space) ==
    LET token == space(s, hallway_space) IN
    IF token = NoToken THEN << >>
    ELSE
      LET target == target_room(token)
          steps == IF target <= hallway_space
                   THEN Range(target, hallway_space)
                   ELSE Range(hallway_space + 1, target)
      IN
      IF cannot_enter(s, target) THEN << >>
      ELSE IF \A step \in steps : space(s, step) = NoToken
      THEN << << (1 + Cardinality(steps) * 2 + room_enter_cost(s, target)) * specific_cost(token),
                 room_push([ s EXCEPT !.hallway_spaces[hallway_space + 1] = NoToken ], target, token) >> >>
      ELSE << >>

enter_from_storage_past_front(s, storage, storage_local) ==
    LET token == storage_at(s, storage, storage_local) IN
    IF token = NoToken THEN << >>
    ELSE
      LET target == target_room(token)
          steps == IF storage = 0 THEN Range(0, target) ELSE Range(target, 3)
      IN
      IF cannot_enter(s, target) THEN << >>
      ELSE IF \A step \in steps : space(s, step) = NoToken
      THEN << << (1 + Cardinality(steps) * 2 + room_enter_cost(s, target) + storage_local)
                    * specific_cost(token),
                 room_push([ s EXCEPT !.hallway_storage[storage + 1][storage_local + 1] = NoToken ],
                           target, token) >> >>
      ELSE << >>
\* lines 195-228: from storage slot (storage, storage_local) into the target room
enter_from_storage(s, storage, storage_local) ==
    LET token == storage_at(s, storage, storage_local) IN
    IF token = NoToken THEN << >>
    ELSE IF ~ (storage_local = 0 \/ storage_at(s, storage, 0) = NoToken) THEN << >>
    ELSE
      LET target == target_room(token)
          steps == IF storage = 0 THEN Range(0, target) ELSE Range(target, 3)
      IN
      IF cannot_enter(s, target) THEN << >>
      ELSE IF \A step \in steps : space(s, step) = NoToken
      THEN << << (1 + Cardinality(steps) * 2 + room_enter_cost(s, target) + storage_local)
                    * specific_cost(token),
                 room_push([ s EXCEPT !.hallway_storage[storage + 1][storage_local + 1] = NoToken ],
                           target, token) >> >>
      ELSE << >>

\* lines 95-230: Vec<(usize, GameState)>, in the order the code pushes
generate_next_states(s) ==
    exit_room(s, 0) \o exit_room(s, 1) \o exit_room(s, 2) \o exit_room(s, 3)
    \o enter_from_space(s, 0) \o enter_from_space(s, 1) \o enter_from_space(s, 2)
    \o enter_from_storage(s, 0, 0) \o enter_from_storage(s, 0, 1)
    \o enter_from_storage(s, 1, 0) \o enter_from_storage(s, 1, 1)

\* lines 95-230 in a build with overflow checks: generate_next_states panics
\* when it prices a move (lines 114, 121, 132, 139, 159, 187, 222) out of or
\* into a room that holds more than room_size tokens
generate_next_states_overflows(s) ==
    /\ \E room_id \in 0 .. 3 : room_cost_overflows(s, room_id)
    /\ \E next_states \in {generate_next_states(s)} :
         \E i \in DOMAIN next_states, room_id \in 0 .. 3 :
             /\ room(next_states[i][2], room_id) # room(s, room_id)
             /\ room_cost_overflows(s, room_id)

(***************************************************************************)
(* day23.rs, lines 51-52: GameState derives Hash and Eq over all of its    *)
(* fields, and the maps and heap entries of find_minimal_score hold        *)
(* Rc<GameState> compared by value.  The model keeps such a value as its   *)
(* key: the fields packed, digit by digit in base TokenBase, into the pair *)
(* of the rooms' two integers and the hallway's integer.  A room is packed *)
(* into as many digits as the longest room has, and no fewer than          *)
(* room_size; the hallway's integer holds room_size (below RoomSizeBase)   *)
(* and the digits beyond it.  Rooms longer than PackedDigits are kept as   *)
(* they are.  key is injective on arrangements, state_of is its inverse.   *)
(***************************************************************************)
TokenBase == 5
token_digit(t) ==
    CASE t = NoToken -> 0
      [] t = "A" -> 1
      [] t = "B" -> 2
      [] t = "C" -> 3
      [] t = "D" -> 4
digit_token(d) ==
    CASE d = 0 -> NoToken
      [] d = 1 -> "A"
      [] d = 2 -> "B"
      [] d = 3 -> "C"
      [] d = 4 -> "D"

RECURSIVE pow(_, _)
pow(b, n) == IF n = 0 THEN 1 ELSE b * pow(b, n - 1)

\* the digits of cells[from .. Len(cells)], lowest first
RECURSIVE pack(_, _)
pack(cells, from) ==
    IF from > Len(cells) THEN 0
    ELSE token_digit(cells[from]) + TokenBase * pack(cells, from + 1)

\* the first n digits of code, as cells
unpack(code, n) == [ i \in 1..n |-> digit_token((code \div pow(TokenBase, i - 1)) % TokenBase) ]

\* a room's Vec: its tokens, bottom first, without the empty places above
RECURSIVE tokens_of(_)
tokens_of(cells) ==
    IF cells = << >> \/ cells[1] = NoToken THEN << >>
    ELSE <<cells[1]>> \o tokens_of(Tail(cells))

RoomSizeBase == 64
PackedDigits == 6

\* the digits a room is packed into
room_digits(s) ==
    CHOOSE d \in { s.room_size } \cup { Len(s.rooms[r]) : r \in 1..4 } :
        /\ d >= s.room_size
        /\ \A r \in 1..4 : d >= Len(s.rooms[r])

key(s) ==
    LET digits == room_digits(s)
        width == pow(TokenBase, digits)
    IN
    << IF digits <= PackedDigits
       THEN << pack(s.rooms[1], 1) * width + pack(s.rooms[2], 1),
               pack(s.rooms[3], 1) * width + pack(s.rooms[4], 1) >>
       ELSE s.rooms,
       pack(s.hallway_spaces \o s.hallway_storage[1] \o s.hallway_storage[2], 1)
         + pow(TokenBase, 7) * (s.room_size + RoomSizeBase * (digits - s.room_size)) >>

state_of(k) ==
    LET room_size == (k[2] \div pow(TokenBase, 7)) % RoomSizeBase
        digits == room_size + (k[2] \div pow(TokenBase, 7)) \div RoomSizeBase
        width == pow(TokenBase, digits)
        hall == unpack(k[2], 7)
    IN [ room_size       |-> room_size,
         rooms           |-> IF Len(k[1]) = 4 THEN k[1]
                             ELSE << tokens_of(unpack(k[1][1] \div width, digits)),
                                     tokens_of(unpack(k[1][1] % width, digits)),
                                     tokens_of(unpack(k[1][2] \div width, digits)),
                                     tokens_of(unpack(k[1][2] % width, digits)) >>,
         hallway_spaces  |-> SubSeq(hall, 1, 3),
         hallway_storage |-> << SubSeq(hall, 4, 5), SubSeq(hall, 6, 7) >> ]

(***************************************************************************)
(* std::cmp::Ordering and the comparison of two unsigned integers.         *)
(***************************************************************************)
int_cmp_swapped(a, b) ==
    IF unsigned_lt(a, b) THEN "Greater" ELSE IF a = b THEN "Equal" ELSE "Less"
int_cmp(a, b) ==
    IF unsigned_lt(a, b) THEN "Less" ELSE IF a = b THEN "Equal" ELSE "Greater"

(***************************************************************************)
(* std::collections::HashMap, as a function of the first component of the  *)
(* key (an arrangement's rooms, a node's column) that gives the entries    *)
(* whose keys have it, a function of the key.                              *)
(***************************************************************************)
map_new == << >>
map_contains_key(map, k) == k[1] \in DOMAIN map /\ k \in DOMAIN map[k[1]]
map_get(map, k) == IF map_contains_key(map, k) THEN Some(map[k[1]][k]) ELSE None
map_insert_if_absent(map, k, v) ==
    IF k[1] \in DOMAIN map
    THEN [ map EXCEPT ![k[1]] = @ @@ (k :> v) ]
    ELSE (k[1] :> (k :> v)) @@ map
map_insert(map, k, v) ==
    IF k[1] \in DOMAIN map
    THEN [ map EXCEPT ![k[1]] = (k :> v) @@ @ ]
    ELSE (k[1] :> (k :> v)) @@ map
map_keys(map) == UNION { DOMAIN map[b] : b \in DOMAIN map }

(***************************************************************************)
(* day23.rs: PathFindEntry { state, score } and its orderings              *)
(***************************************************************************)
PathFindEntry23_partial_cmp_reversed(a, b) == int_cmp(b.score, a.score)
\* lines 239-243
PathFindEntry23_partial_cmp(a, b) == int_cmp(a.score, b.score)
\* lines 245-249
PathFindEntry23_cmp(a, b) == int_cmp(a.score, b.score)
\* Reverse(a) <= Reverse(b) (lines 259 and 291), that is b <= a
Reverse23_le_unreversed(a, b) == PathFindEntry23_partial_cmp(a, b) \in {"Less", "Equal"}
Reverse23_le(a, b) == PathFindEntry23_partial_cmp(b, a) \in {"Less", "Equal"}

(***************************************************************************)
(* day15.rs: PathFindEntry { score, node } and its orderings               *)
(***************************************************************************)
\* (usize, usize)::partial_cmp: lexicographic
node_cmp(a, b) == IF a[1] # b[1] THEN int_cmp(a[1], b[1]) ELSE int_cmp(a[2], b[2])
PathFindEntry15_partial_cmp_unordered(a, b) == "Equal"
\* lines 24-32
PathFindEntry15_partial_cmp(a, b) ==
    IF int_cmp(a.score, b.score) # "Equal" THEN int_cmp(a.score, b.score)
    ELSE node_cmp(a.node, b.node)
\* lines 34-38
PathFindEntry15_cmp(a, b) == int_cmp(b.score, a.score)
\* Reverse(a) <= Reverse(b) (lines 45 and 61), that is b <= a
Reverse15_le_by_cmp(a, b) == PathFindEntry15_cmp(b, a) \in {"Less", "Equal"}
Reverse15_le(a, b) == PathFindEntry15_partial_cmp(b, a) \in {"Less", "Equal"}

(***************************************************************************)
(* std::collections::BinaryHeap: its Vec `data` in the heap's layout, the  *)
(* element at position pos (from 0) being data[pos + 1], a greatest one at *)
(* position 0.  The heap compares its elements with `<=`, which Rust       *)
(* derives from partial_cmp.  push is data.push and sift_up(0, old_len),   *)
(* pop is data.pop, the exchange of the item with data[0] and              *)
(* sift_down_to_bottom(0).  A Hole is the position pos with the element    *)
(* taken out of it.                                                        *)
(***************************************************************************)
\* Reverse(a) <= Reverse(b) for the entries of either search
Reverse_le(a, b) ==
    IF "state" \in DOMAIN a THEN Reverse23_le(a, b) ELSE Reverse15_le(a, b)

\* BinaryHeap::sift_up(first, pos), the hole's element being `element`
\* (an operator's arguments are taken as values: data, hole, item)
RECURSIVE sift_up(_, _, _, _)
sift_up(heap, first, pos, element) ==
    CHOOSE sifted \in
        { LET parent == (hole - 1) \div 2 IN
          IF hole > first /\ ~Reverse_le(item, data[parent + 1])
          THEN sift_up([ data EXCEPT ![hole + 1] = data[parent + 1] ], first, parent, item)
          ELSE [ data EXCEPT ![hole + 1] = item ] :
            data \in {heap}, hole \in {pos}, item \in {element} } : TRUE

\* the greater of the children child and child + 1 of a position
greater_child(data, child) ==
    IF Reverse_le(data[child + 1], data[child + 2]) THEN child + 1 ELSE child

\* BinaryHeap::sift_down_to_bottom(first), the hole being at pos: down to
\* the bottom along the greater children, then sift_up(first, pos)
RECURSIVE sift_down_to_bottom(_, _, _, _)
sift_down_to_bottom(heap, first, pos, element) ==
    CHOOSE sifted \in
        { LET end == Len(data)
              child == 2 * hole + 1
          IN IF child + 2 <= end       \* child <= end.saturating_sub(2)
             THEN CHOOSE below \in
                    { sift_down_to_bottom([ data EXCEPT ![hole + 1] = data[greater + 1] ],
                                          first, greater, item) :
                        greater \in {greater_child(data, child)} } : TRUE
             ELSE IF child = end - 1
             THEN sift_up([ data EXCEPT ![hole + 1] = data[child + 1] ], first, child, item)
             ELSE sift_up(data, first, hole, item) :
            data \in {heap}, hole \in {pos}, item \in {element} } : TRUE

\* BinaryHeap::push
heap_push(heap, e) ==
    CHOOSE pushed \in { sift_up(Append(data, item), 0, Len(data), item) :
                          data \in {heap}, item \in {e} } : TRUE

\* BinaryHeap::pop: the heap it leaves (the item returned is heap[heap_peek])
heap_pop(heap) ==
    CHOOSE popped \in
        { IF Len(data) = 1 THEN << >>
          ELSE sift_down_to_bottom(SubSeq(data, 1, Len(data) - 1), 0, 0, data[Len(data)]) :
            data \in {heap} } : TRUE

\* the positions + 1 of the greatest elements.  They compare as equal to the
\* one at position 0, so the heap with any of them exchanged with that one is
\* a layout of the same elements that the order of the pushes and pops before
\* may as well have left.
heap_greatest(heap) ==
    { i \in DOMAIN heap : \A j \in DOMAIN heap : Reverse_le(heap[j], heap[i]) }

\* pop, were the heap's greatest element heap[i] the one at position 0
heap_remove(heap, i) ==
    IF i = 1 THEN heap_pop(heap)
    ELSE heap_pop([ heap EXCEPT ![1] = heap[i], ![i] = heap[1] ])

\* position 0, whose element pop() returns
heap_peek == 1

(***************************************************************************)
(* day23.rs: find_minimal_score                                            *)
(***************************************************************************)
\* what a call holds while its loop runs, and how it has ended
search_state ==
    [ open_nodes |-> open_nodes, known_paths |-> known_paths, preds |-> preds,
      pc |-> pc, result |-> result, expanded |-> expanded ]

becomes(st) ==
    \E next \in {st} :
        /\ open_nodes' = next.open_nodes
        /\ known_paths' = next.known_paths
        /\ preds' = next.preds
        /\ pc' = next.pc
        /\ result' = next.result
        /\ expanded' = next.expanded
        /\ UNCHANGED <<start, field, returned, heuristic, injected, overflow_checks>>

is_improvement_or_equal(cand_score, current_best) ==
    current_best = None \/ ~unsigned_lt(current_best[1], cand_score)
\* lines 286-289 (line 57 of day15.rs): the neighbour is unseen, or the
\* candidate is strictly cheaper than the ledger's value
is_improvement(cand_score, current_best) ==
    current_best = None \/ unsigned_lt(cand_score, current_best[1])

relax_next_state_without_pred(known, current, score, next_state) ==
    LET cand_score == map_get(known.known_paths, current.state)[1] + score
        current_best == map_get(known.known_paths, next_state)
    IN
    IF is_improvement(cand_score, current_best)
    THEN [ known EXCEPT
             !.open_nodes = heap_push(@, [state |-> next_state, score |-> cand_score]),
             !.known_paths = map_insert(@, next_state, cand_score) ]
    ELSE known
relax_next_state_pred_total(known, current, score, next_state) ==
    LET cand_score == map_get(known.known_paths, current.state)[1] + score
        current_best == map_get(known.known_paths, next_state)
    IN
    IF is_improvement(cand_score, current_best)
    THEN [ known EXCEPT
             !.open_nodes = heap_push(@, [state |-> next_state, score |-> cand_score]),
             !.known_paths = map_insert(@, next_state, cand_score),
             !.preds = map_insert(@, next_state, <<cand_score, current.state>>) ]
    ELSE known
\* lines 284-297: one pass of the for loop over next_states, for the move
\* (score, next_state), on the heap and the maps `known`
relax_next_state(known, current, score, next_state) ==
    LET cand_score == map_get(known.known_paths, current.state)[1] + score
        current_best == map_get(known.known_paths, next_state)
    IN
    IF is_improvement(cand_score, current_best)
    THEN [ known EXCEPT
             !.open_nodes = heap_push(@, [state |-> next_state, score |-> cand_score]),
             !.known_paths = map_insert(@, next_state, cand_score),
             !.preds = map_insert(@, next_state, <<score, current.state>>) ]
    ELSE known

\* lines 283-298: the for loop over next_states, from index i on.  acc is
\* the heap and the maps as the loop has left them so far; a pass takes them,
\* and the key of the move's arrangement, as values.
RECURSIVE relax_next_states(_, _, _, _)
relax_next_states(current, next_states, i, acc) ==
    IF i > Len(next_states) THEN acc
    ELSE relax_next_states(current, next_states, i + 1,
           CHOOSE after \in { relax_next_state(known, current, next_states[i][1], next_state) :
                                 known \in {acc}, next_state \in {key(next_states[i][2])} } : TRUE)

\* lines 268-274: the walk from the goal back to start along preds; path is
\* the set of the states it has passed
RECURSIVE walk_back(_, _, _)
walk_back(st, state, path) ==
    LET walk_from(at_state) ==
          IF at_state = key(start) THEN "returns"
          ELSE IF ~map_contains_key(st.preds, at_state) THEN "panics"    \* preds[&current.1]
          ELSE IF at_state \in path THEN "loops"
          ELSE walk_back(st, map_get(st.preds, at_state)[1][2], path \cup {at_state})
    IN CHOOSE walk \in { walk_from(at_state) : at_state \in {state} } : TRUE

\* line 282 (line 55 of day15.rs): the neighbours of `state` are generated,
\* for a popped entry that is stale (costlier than the ledger's value) or not
generated(log, state, stale, ledger_value) ==
    LET before == IF map_contains_key(log, state) THEN map_get(log, state)[1] ELSE <<0, 0>>
    IN map_insert(log, state,
                  <<before[1] + 1, before[2] + (IF stale THEN 1 ELSE 0), ledger_value>>)

\* lines 266-298: the body of the while loop for the popped entry `current`,
\* with `popped` the heap and the maps after the pop.  In a build with
\* overflow checks the call panics in generate_next_states (line 282) where a
\* room cost underflows; in one without, the loop goes on with the wrapped costs.
find_minimal_score_body(st, popped, current) ==
    IF ~map_contains_key(st.known_paths, current.state)     \* known_paths[&current.state]
    THEN [ popped EXCEPT !.pc = "panic" ]
    ELSE IF current.state = key(new_finished(start.room_size))
    THEN LET walk == walk_back(st, current.state, {}) IN
         IF walk = "returns"
         THEN [ popped EXCEPT !.pc = "done",
                              !.result = map_get(st.known_paths, current.state) ]
         ELSE [ popped EXCEPT !.pc = IF walk = "panics" THEN "panic" ELSE "hang" ]
    ELSE IF overflow_checks /\ generate_next_states_overflows(state_of(current.state))
    THEN [ popped EXCEPT !.pc = "panic" ]
    ELSE CHOOSE after \in
           { relax_next_states(current, next_states, 1,
                               [ popped EXCEPT !.expanded =
                                   generated(@, current.state,
                                             unsigned_lt(map_get(st.known_paths,
                                                                 current.state)[1],
                                                         current.score),
                                             map_get(st.known_paths, current.state)[1]) ]) :
               next_states \in { generate_next_states(s) :
                                    s \in {state_of(current.state)} } } : TRUE

\* lines 265-299: one iteration of the while loop, popping the entry at popped_at
find_minimal_score_iter(st, popped_at) ==
    CHOOSE after \in
        { find_minimal_score_body(st, popped, current) :
            popped \in {[ st EXCEPT !.open_nodes = heap_remove(st.open_nodes, popped_at) ]},
            current \in {st.open_nodes[popped_at]} } : TRUE

search_exhausted_expect(st) == [ st EXCEPT !.pc = "panic" ]
search_exhausted_spins(st) == st
\* line 265 with the heap empty, and line 301 (line 66 of day15.rs)
search_exhausted(st) == [ st EXCEPT !.pc = "done", !.result = None ]

\* lines 265-301: up to n iterations of the while loop, each popping what
\* BinaryHeap::pop returns (the first half of them, then the rest)
RECURSIVE find_minimal_score_while(_, _)
find_minimal_score_while(st, n) ==
    IF n = 0 \/ st.pc # "running" THEN st
    ELSE IF n > 1
    THEN find_minimal_score_while(find_minimal_score_while(st, n \div 2), n - n \div 2)
    ELSE IF st.open_nodes = << >> THEN search_exhausted(st)
    ELSE find_minimal_score_iter(st, heap_peek)

NoStart == << >>
NoField == << >>

\* one iteration of the loop of find_minimal_score under any rule a heap may
\* follow among entries of equal score: it pops any of the heap's greatest
\* elements (BinaryHeap::pop takes the one at position 0)
find_minimal_score ==
    /\ start # NoStart
    /\ pc = "running"
    /\ IF open_nodes = << >>
       THEN becomes(search_exhausted(search_state))
       ELSE \E popped_at \in heap_greatest(open_nodes) :
                becomes(find_minimal_score_iter(search_state, popped_at))

\* the next n iterations of the loop
find_minimal_score_slice(n) ==
    /\ start # NoStart
    /\ pc = "running"
    /\ becomes(find_minimal_score_while(search_state, n))

\* lines 252-263: what find_minimal_score(s) sets up before its loop
find_minimal_score_setup(s) ==
    [ open_nodes  |-> << [state |-> key(s), score |-> 0] >>,
      known_paths |-> map_insert(map_new, key(s), 0),
      preds       |-> map_new,
      pc          |-> "running",
      result      |-> None,
      expanded    |-> map_new ]

(***************************************************************************)
(* day15.rs: RiskField = Field2D<u32>.  A field is a record of its width,  *)
(* its height and its cells, a function of the coordinates <<x, y>>.       *)
(***************************************************************************)
coords(width, height) == (0 .. width - 1) \X (0 .. height - 1)

\* Field2D::neighbors(x, y): the in-bounds axis-aligned neighbours
neighbors(f, x, y) ==
    (IF x # f.width - 1 THEN << <<x + 1, y>> >> ELSE << >>)
    \o (IF x # 0 THEN << <<x - 1, y>> >> ELSE << >>)
    \o (IF y # f.height - 1 THEN << <<x, y + 1>> >> ELSE << >>)
    \o (IF y # 0 THEN << <<x, y - 1>> >> ELSE << >>)

(***************************************************************************)
(* day15.rs: path_find                                                     *)
(***************************************************************************)
\* the integer square root
RECURSIVE isqrt(_)
isqrt(n) ==
    IF n < 2 THEN n
    ELSE CHOOSE r \in { IF (s + 1) <= n \div (s + 1) THEN s + 1 ELSE s :
                          s \in {2 * isqrt(n \div 4)} } : TRUE

\* the power of two 2^e with 2^e < v <= 2^(e + 1), for v >= 2 (1 for v = 1)
RECURSIVE f32_binade_below(_)
f32_binade_below(v) == IF v <= 2 THEN 1 ELSE 2 * f32_binade_below((v + 1) \div 2)

\* `n as f32`: n rounded to the 24 significant bits of an f32, ties to even
RECURSIVE f32_ulp(_)
f32_ulp(n) == IF n < 16777216 THEN 1 ELSE 2 * f32_ulp(n \div 2)
as_f32(n) ==
    LET ulp == f32_ulp(n)
        q == n \div ulp
        r == n % ulp
    IN IF 2 * r > ulp \/ (2 * r = ulp /\ q % 2 = 1) THEN (q + 1) * ulp ELSE q * ulp

\* f32::sqrt, correctly rounded, of the f32 x, then `as u32`.  With
\* k = isqrt(x) the exact root is in [k, k + 1); the f32 values below k + 1
\* are 2^(e - 23) apart, for 2^e < k + 1 <= 2^(e + 1), and the root rounds
\* up to k + 1 when it is less than half of that below it: when
\* ((k + 1)^2 - x) * 2^(23 - e) < k + 1.  Otherwise the cast truncates to k.
f32_sqrt_as_u32(x) ==
    LET k == isqrt(x)
        v == k + 1
        m == (v - x \div v) * v - (x % v)        \* v * v - x
    IN IF m * (8388608 \div f32_binade_below(v)) < v THEN v ELSE k

sqrt_as_u32_squared(n) == n
\* line 60: (n as f32).sqrt() as u32, for n below 2^31 - 2^7
sqrt_as_u32(n) == f32_sqrt_as_u32(as_f32(n))

\* line 60: the heuristic of `neighbor`
heuristic_of(goal, neighbor) ==
    sqrt_as_u32((goal[1] - neighbor[1]) * (goal[1] - neighbor[1])
                + (goal[2] - neighbor[2]) * (goal[2] - neighbor[2]))

\* the heuristic of the run under way: that of line 60 in a call of path_find,
\* and 0 in the run of the same loop as plain Dijkstra that the result of a
\* call is compared with (a run the repository itself does not make)
heuristic_in_run(goal, neighbor) ==
    IF heuristic = "zero" THEN 0 ELSE heuristic_of(goal, neighbor)

\* lines 56-62: one pass of the for loop over the neighbours, on the heap
\* and the map `known`
relax_neighbor(known, current, goal, neighbor) ==
    LET cand_score == map_get(known.known_paths, current.node)[1] + field.cells[neighbor]
        current_best == map_get(known.known_paths, neighbor)
    IN
    IF is_improvement(cand_score, current_best)
    THEN [ known EXCEPT
             !.known_paths = map_insert(@, neighbor, cand_score),
             !.open_nodes = heap_push(@, [score |-> cand_score + heuristic_in_run(goal, neighbor),
                                          node  |-> neighbor]) ]
    ELSE known

\* lines 55-63: the for loop over the neighbours, from index i on.  acc is
\* the heap and the map as the loop has left them so far; a pass takes them
\* as a value.
RECURSIVE relax_neighbors(_, _, _, _, _)
relax_neighbors(current, goal, nbrs, i, acc) ==
    IF i > Len(nbrs) THEN acc
    ELSE relax_neighbors(current, goal, nbrs, i + 1,
           CHOOSE after \in { relax_neighbor(known, current, goal, nbrs[i]) :
                                 known \in {acc} } : TRUE)

\* lines 50-64: one iteration of the while loop with `current` popped
path_find_iter(st, popped_at) ==
    LET goal == <<field.width - 1, field.height - 1>>
        current == st.open_nodes[popped_at]
        popped == [ st EXCEPT !.open_nodes = heap_remove(st.open_nodes, popped_at) ]
    IN
    IF current.node = goal
    THEN [ popped EXCEPT !.pc = "done", !.result = map_get(st.known_paths, goal) ]
    ELSE relax_neighbors(current, goal,
                         neighbors(field, current.node[1], current.node[2]), 1,
                         [ popped EXCEPT !.expanded =
                             generated(@, current.node,
                                       current.score - heuristic_in_run(goal, current.node)
                                         > map_get(st.known_paths, current.node)[1],
                                       map_get(st.known_paths, current.node)[1]) ])

\* lines 50-66: up to n iterations of the while loop (the first half of
\* them, then the rest).  Entries equal in score
\* and node are one and the same, so the heap's greatest element is unique.
RECURSIVE path_find_while(_, _)
path_find_while(st, n) ==
    IF n = 0 \/ st.pc # "running" THEN st
    ELSE IF n > 1
    THEN path_find_while(path_find_while(st, n \div 2), n - n \div 2)
    ELSE IF st.open_nodes = << >> THEN search_exhausted(st)
    ELSE path_find_iter(st, heap_peek)

\* one iteration of the loop of path_find
path_find ==
    /\ field # NoField
    /\ pc = "running"
    /\ IF open_nodes = << >>
       THEN becomes(search_exhausted(search_state))
       ELSE \E popped_at \in heap_greatest(open_nodes) :
                becomes(path_find_iter(search_state, popped_at))

\* the next n iterations of the loop
path_find_slice(n) ==
    /\ field # NoField
    /\ pc = "running"
    /\ becomes(path_find_while(search_state, n))

path_find_setup_counting_start ==
    [ open_nodes  |-> << [score |-> field.cells[<<0, 0>>], node |-> <<0, 0>>] >>,
      known_paths |-> map_insert(map_new, <<0, 0>>, field.cells[<<0, 0>>]),
      preds       |-> map_new,
      pc          |-> "running",
      result      |-> None,
      expanded    |-> map_new ]
\* lines 42-46: what path_find sets up before its loop
path_find_setup ==
    [ open_nodes  |-> << [score |-> 0, node |-> <<0, 0>>] >>,
      known_paths |-> map_insert(map_new, <<0, 0>>, 0),
      preds       |-> map_new,
      pc          |-> "running",
      result      |-> None,
      expanded    |-> map_new ]

quintuple_field_one_row(input) ==
    [ width  |-> input.width * 5,
      height |-> input.height,
      cells  |-> [ c \in coords(input.width * 5, input.height) |->
                     ((input.cells[<<c[1] % input.width, c[2]>>]
                        + (c[1] \div input.width) - 1) % 9) + 1 ] ]
quintuple_field_unwrapped(input) ==
    [ width  |-> input.width * 5,
      height |-> input.height * 5,
      cells  |-> [ c \in coords(input.width * 5, input.height * 5) |->
                     input.cells[<<c[1] % input.width, c[2] % input.height>>]
                        + (c[1] \div input.width) + (c[2] \div input.height) ] ]
\* line 80: (a - b) % m with a u32 subtraction, as a build without overflow
\* checks computes it: below 0 the difference wraps to 2^32 + a - b.  (2^32 is
\* U16 * U16, taken modulo m factor by factor.)
U16 == 65536
u32_wrapping_sub_mod(a, b, m) ==
    IF a >= b THEN (a - b) % m
    ELSE ((U16 % m) * (U16 % m) + a - b) % m
\* line 80: the subtraction goes below 0 for some cell of some tile; a build
\* with overflow checks panics there
quintuple_field_underflows(input) ==
    \E c \in DOMAIN input.cells, field_x, field_y \in 0 .. 4 :
        input.cells[c] + field_x + field_y < 1
\* lines 75-85: tile (field_x, field_y) writes cell (offset_x + ox, offset_y + oy)
quintuple_field(input) ==
    [ width  |-> input.width * 5,
      height |-> input.height * 5,
      cells  |-> [ c \in coords(input.width * 5, input.height * 5) |->
                     LET field_x == c[1] \div input.width
                         field_y == c[2] \div input.height
                         ox == c[1] % input.width
                         oy == c[2] % input.height
                     IN u32_wrapping_sub_mod(input.cells[<<ox, oy>>] + field_x + field_y, 1, 9)
                          + 1 ] ]

(***************************************************************************)
(* Calls.  begin(...) is the state a call starts its loop in; call_again   *)
(* is a further call on the same input once the running one has returned.  *)
(***************************************************************************)
setup == IF start # NoStart THEN find_minimal_score_setup(start) ELSE path_find_setup

\* a room of s holds more tokens than room_size
over_full(s) == s # << >> /\ \E room_id \in 0 .. 3 : room_cost_overflows(s, room_id)

\* The builds a run is followed in.  The two builds differ only where a
\* subtraction underflows, and in find_minimal_score that takes a room with
\* more than room_size tokens, which no move makes (a room is entered by one
\* token when its length is not room_size).  A run from any other start is the
\* same in both builds and is kept once.
builds(s) == IF over_full(s) THEN BOOLEAN ELSE {TRUE}

begin(s, f) ==
    /\ start = s
    /\ overflow_checks \in builds(s)
    /\ field = f
    /\ returned = << >>
    /\ heuristic = "euclid"
    /\ injected = 0
    /\ open_nodes = setup.open_nodes
    /\ known_paths = setup.known_paths
    /\ preds = setup.preds
    /\ pc = setup.pc
    /\ result = setup.result
    /\ expanded = setup.expanded

MaxCalls == 2

restart ==
    /\ returned' = Append(returned, result)
    /\ injected' = 0
    /\ open_nodes' = setup.open_nodes
    /\ known_paths' = setup.known_paths
    /\ preds' = setup.preds
    /\ pc' = setup.pc
    /\ result' = setup.result
    /\ expanded' = setup.expanded
    /\ UNCHANGED <<start, field, overflow_checks>>

call_again ==
    /\ pc = "done"
    /\ Len(returned) + 1 < MaxCalls
    /\ restart
    /\ UNCHANGED heuristic

\* the same loop of path_find called again with the heuristic replaced by 0
call_again_as_dijkstra ==
    /\ pc = "done"
    /\ field # NoField
    /\ heuristic = "euclid"
    /\ restart
    /\ heuristic' = "zero"

\* a call of find_minimal_score on an arrangement generate_next_states gives
\* for the arrangement of the call before
move ==
    /\ start # NoStart
    /\ ~(overflow_checks /\ generate_next_states_overflows(start))
    /\ \E next_states \in {generate_next_states(start)} :
         \E i \in DOMAIN next_states :
           \E next \in {find_minimal_score_setup(next_states[i][2])} :
             /\ start' = next_states[i][2]
             /\ open_nodes' = next.open_nodes
             /\ known_paths' = next.known_paths
             /\ preds' = next.preds
             /\ pc' = next.pc
             /\ result' = next.result
             /\ expanded' = next.expanded
    /\ UNCHANGED <<field, returned, heuristic, injected, overflow_checks>>

\* day15.rs lines 87-91: part2 on a parsed field.  quintuple_field panics at
\* an underflow of line 80 in a build with overflow checks and wraps in one
\* without; path_find then starts on the tiled field.
parsed(f) ==
    /\ start = NoStart
    /\ overflow_checks \in BOOLEAN
    /\ field = f
    /\ returned = << >>
    /\ heuristic = "euclid"
    /\ injected = 0
    /\ open_nodes = << >>
    /\ known_paths = map_new
    /\ preds = map_new
    /\ pc = "parsed"
    /\ result = None
    /\ expanded = map_new

part2 ==
    /\ pc = "parsed"
    /\ field # NoField
    /\ IF overflow_checks /\ quintuple_field_underflows(field)
       THEN /\ pc' = "panic"
            /\ UNCHANGED <<field, open_nodes, known_paths, preds, result, expanded>>
       ELSE /\ field' = quintuple_field(field)
            /\ open_nodes' = path_find_setup.open_nodes
            /\ known_paths' = path_find_setup.known_paths
            /\ preds' = path_find_setup.preds
            /\ pc' = path_find_setup.pc
            /\ result' = path_find_setup.result
            /\ expanded' = path_find_setup.expanded
    /\ UNCHANGED <<start, returned, heuristic, injected, overflow_checks>>

(***************************************************************************)
(* An extra heap entry for a state the ledger knows, with a cost worse     *)
(* than the ledger's by 1 .. MaxWorse, pushed while a repeated call runs.  *)
(***************************************************************************)
MaxInject == 1
MaxWorse == 2

inject ==
    /\ pc = "running"
    /\ returned # << >>
    /\ injected < MaxInject
    /\ \E s \in map_keys(known_paths), worse \in 1 .. MaxWorse :
         open_nodes' =
            IF start # NoStart
            THEN heap_push(open_nodes,
                           [state |-> s, score |-> map_get(known_paths, s)[1] + worse])
            ELSE heap_push(open_nodes,
                           [score |-> map_get(known_paths, s)[1] + worse
                                + heuristic_of(<<field.width - 1, field.height - 1>>, s),
                            node  |-> s])
    /\ injected' = injected + 1
    /\ UNCHANGED <<start, field, known_paths, preds, pc, result, returned, heuristic,
                   overflow_checks, expanded>>

(***************************************************************************)
(* Inputs                                                                  *)
(***************************************************************************)
\* day15.rs lines 8-16: the field of the given rows of digits
parse_risk_field(rows) ==
    [ width  |-> Len(rows[1]),
      height |-> Len(rows),
      cells  |-> [ c \in coords(Len(rows[1]), Len(rows)) |-> rows[c[2] + 1][c[1] + 1] ] ]

\* day15.rs lines 111-127: tests::example_file
ExampleField ==
    parse_risk_field(<< <<1,1,6,3,7,5,1,7,4,2>>,
                        <<1,3,8,1,3,7,3,6,7,2>>,
                        <<2,1,3,6,5,1,1,3,2,8>>,
                        <<3,6,9,4,9,3,1,5,6,9>>,
                        <<7,4,6,3,4,1,7,1,1,1>>,
                        <<1,3,1,9,1,2,8,1,3,7>>,
                        <<1,3,5,9,9,1,2,4,2,1>>,
                        <<3,1,2,5,4,2,1,6,3,9>>,
                        <<1,2,9,3,1,3,8,5,2,1>>,
                        <<2,3,1,1,9,4,4,5,8,1>> >>)

\* every field of at most MaxCells cells with digits 0 .. MaxDigit
MaxCells == 6
MaxDigit == 3
SmallFields ==
    UNION { UNION { { [width |-> w, height |-> h, cells |-> c] :
                        c \in [coords(w, h) -> 0 .. MaxDigit] } :
                    h \in { h \in 1 .. MaxCells : w * h <= MaxCells } } :
            w \in 1 .. MaxCells }

\* day23.rs lines 304-323: the arrangement with the given rooms, bottom first
burrow(room_size, rooms) == [ new_empty(room_size) EXCEPT !.rooms = rooms ]

\* day23.rs lines 359-370: tests::example_file, parsed with room_size 2 (part1)
ExampleBurrow == burrow(2, << <<"A", "B">>, <<"D", "C">>, <<"C", "B">>, <<"A", "D">> >>)
\* the same with the two rows of lines 334-335 inserted (part2)
ExampleBurrowUnfolded ==
    burrow(4, << <<"A", "D", "D", "B">>, <<"D", "B", "C", "C">>,
                 <<"C", "A", "B", "B">>, <<"A", "C", "A", "D">> >>)

\* day15.rs lines 87-91 (part2) on the example file
ExampleFieldTiled == quintuple_field(ExampleField)

\* Burrows of depth 1 .. MaxRoomSize whose rows below the top one are in
\* place, and whose four top tokens, one of each type, sit anywhere on the
\* room tops and the hallway spaces, at most MaxInHallway of them in the hallway.
MaxRoomSize == 2
MaxInHallway == 2
Places == { <<"room", r>> : r \in 0 .. 3 } \cup { <<"space", h>> : h \in 0 .. 2 }
Placements ==
    { p \in [Token -> Places] :
        /\ \A t, u \in Token : t # u => p[t] # p[u]
        /\ Cardinality({ t \in Token : p[t][1] = "space" }) <= MaxInHallway }
placed(room_size, p) ==
    [ room_size       |-> room_size,
      rooms           |-> [ r \in 1 .. 4 |->
                              [ i \in 1 .. room_size - 1 |-> from_room(r - 1) ]
                              \o (IF \E t \in Token : p[t] = <<"room", r - 1>>
                                  THEN << CHOOSE t \in Token : p[t] = <<"room", r - 1>> >>
                                  ELSE << >>) ],
      hallway_spaces  |-> [ h \in 1 .. 3 |->
                              IF \E t \in Token : p[t] = <<"space", h - 1>>
                              THEN CHOOSE t \in Token : p[t] = <<"space", h - 1>>
                              ELSE NoToken ],
      hallway_storage |-> << <<NoToken, NoToken>>, <<NoToken, NoToken>> >> ]
SmallBurrows == { placed(n, p) : n \in 1 .. MaxRoomSize, p \in Placements }

\* Burrows of depth 1 a few moves from finished: two tokens exchanged, a token
\* waiting in a storage slot, and two tokens blocking each other in the hallway.
TieBurrows ==
    { burrow(1, << <<"D">>, <<"B">>, <<"C">>, <<"A">> >>),
      [ burrow(1, << << >>, <<"A">>, <<"C">>, <<"D">> >>)
          EXCEPT !.hallway_storage[1][1] = "B" ],
      [ burrow(1, << << >>, <<"B">>, <<"C">>, << >> >>)
          EXCEPT !.hallway_spaces = << NoToken, "D", "A" >> ] }

\* how many iterations of a search loop one step of the long runs takes
PopsPerStep15 == 16
PopsPerStep23 == 160
\* how many iterations a step that takes a whole call may run
MaxPops == 131072

(***************************************************************************)
(* Specifications                                                          *)
(***************************************************************************)
\* path_find on every small field
InitGrid == \E f \in SmallFields : begin(NoStart, f)
SpecGrid == InitGrid /\ [][path_find]_vars

\* path_find on every small field, then the same loop as plain Dijkstra
NextGridDijkstra == path_find \/ call_again_as_dijkstra
SpecGridDijkstra == InitGrid /\ [][NextGridDijkstra]_vars

\* find_minimal_score on every small burrow
InitBurrow == \E s \in SmallBurrows : begin(s, NoField)
NextBurrow == find_minimal_score_slice(PopsPerStep23)
SpecBurrow == InitBurrow /\ [][NextBurrow]_vars

\* repeated calls; find_minimal_score under every pop order of equal scores
InitRepeat ==
    \/ \E f \in SmallFields : begin(NoStart, f)
    \/ \E s \in TieBurrows : begin(s, NoField)
NextRepeat == path_find \/ find_minimal_score \/ call_again
SpecRepeat == InitRepeat /\ [][NextRepeat]_vars

\* a call, then a call into whose heap extra entries are pushed
NextInject == path_find \/ find_minimal_score_slice(1) \/ call_again \/ inject
SpecInject == InitRepeat /\ [][NextInject]_vars

\* day15 tests: part1 and part2 on the example file
InitExample15 ==
    \/ begin(NoStart, ExampleField)
    \/ begin(NoStart, ExampleFieldTiled)
NextExample15 == path_find_slice(PopsPerStep15)
SpecExample15 == InitExample15 /\ [][NextExample15]_vars

\* day23 tests: part1 on the example file
InitExample23 == begin(ExampleBurrow, NoField)
NextExample23 == find_minimal_score_slice(PopsPerStep23)
SpecExample23 == InitExample23 /\ [][NextExample23]_vars

\* day23 tests: part2 on the example file, and the small burrows; every call
\* of find_minimal_score in one step
InitUnfolded ==
    \/ begin(ExampleBurrowUnfolded, NoField)
    \/ \E s \in SmallBurrows : begin(s, NoField)
NextUnfolded == find_minimal_score_slice(MaxPops)
SpecUnfolded == InitUnfolded /\ [][NextUnfolded]_vars

\* generate_next_states on the small burrows, on the example burrow and on
\* every arrangement its moves lead to from these
InitMoves ==
    \/ \E s \in SmallBurrows : begin(s, NoField)
    \/ begin(ExampleBurrow, NoField)
NextMoves == move
SpecMoves == InitMoves /\ [][NextMoves]_vars

\* find_minimal_score, in either build, on burrows one of whose rooms holds
\* more tokens than room_size (parse_input takes up to four rows of tokens
\* whatever room_size it is given)
OverfullBurrows ==
    { burrow(1, << <<"A", "A">>, <<"B">>, << >>, << >> >>),
      burrow(1, << <<"B", "A">>, <<"A">>, <<"C">>, <<"D">> >>),
      burrow(1, << <<"A", "B">>, << >>, <<"C">>, <<"D">> >>) }
InitOverfull == \E s \in OverfullBurrows : begin(s, NoField)
NextOverfull == find_minimal_score_slice(1)
SpecOverfull == InitOverfull /\ [][NextOverfull]_vars

\* part2 of day15 on every field of at most MaxCellsTile cells with the
\* digits 0 .. 9 that parse_risk_field reads
MaxCellsTile == 3
TileFields ==
    UNION { UNION { { [width |-> w, height |-> h, cells |-> c] :
                        c \in [coords(w, h) -> 0 .. 9] } :
                    h \in { h \in 1 .. MaxCellsTile : w * h <= MaxCellsTile } } :
            w \in 1 .. MaxCellsTile }
InitTile == \E f \in TileFields : parsed(f)
NextTile == part2
SpecTile == InitTile /\ [][NextTile]_vars

\* a call of either search, one iteration at a time under every pop order; the
\* loop is synchronous code, so a call that can take an iteration takes it
\* burrows of depth 1 with one or two tokens out of place
LiveBurrows ==
    { [ burrow(1, << << >>, <<"A">>, <<"C">>, <<"D">> >>)
          EXCEPT !.hallway_storage[1][1] = "B" ],
      [ burrow(1, << << >>, <<"A">>, <<"C">>, <<"D">> >>)
          EXCEPT !.hallway_spaces[3] = "B" ],
      [ burrow(1, << <<"B">>, << >>, <<"C">>, <<"D">> >>)
          EXCEPT !.hallway_storage[2][2] = "A" ],
      [ burrow(1, << << >>, <<"B">>, <<"C">>, << >> >>)
          EXCEPT !.hallway_spaces = << NoToken, "D", "A" >> ] }
MaxCellsLive == 4
MaxDigitLive == 1
InitTerminate ==
    \/ \E f \in { g \in SmallFields : /\ g.width * g.height <= MaxCellsLive
                                      /\ \A c \in DOMAIN g.cells : g.cells[c] <= MaxDigitLive } :
           begin(NoStart, f)
    \/ \E s \in LiveBurrows : begin(s, NoField)
NextTerminate == path_find \/ find_minimal_score
SpecTerminate == InitTerminate /\ [][NextTerminate]_vars /\ WF_vars(NextTerminate)

(***************************************************************************)
(* Reference values, computed without any frontier: the cheapest cost over *)
(* all move sequences of exactly 0, 1, 2, ... moves.                       *)
(***************************************************************************)
Min(S) == CHOOSE m \in S : \A x \in S : m <= x
SeqRange(seq) == { seq[i] : i \in DOMAIN seq }
better(a, b) == IF a = None THEN b ELSE IF b = None THEN a ELSE Some(Min({a[1], b[1]}))
at(layer, k) == IF k \in DOMAIN layer THEN Some(layer[k]) ELSE None

\* the cheapest of the candidates <<key, cost>> for every key, as a function
cheapest_by_key(cands) ==
    [ k \in { c[1] : c \in cands } |-> Min({ c[2] : c \in { d \in cands : d[1] = k } }) ]

\* arrangements one move after those of the layer
burrow_step(layer) ==
    cheapest_by_key(UNION { { <<key(m[2]), layer[u] + m[1]>> :
                                m \in SeqRange(generate_next_states(state_of(u))) } :
                            u \in DOMAIN layer })

RECURSIVE cheapest_from_layer(_, _, _)
cheapest_from_layer(layer, goal, best) ==
    IF DOMAIN layer = {} THEN best
    ELSE cheapest_from_layer(burrow_step(layer), goal, better(best, at(layer, goal)))

\* None when no move sequence finishes the burrow
cheapest_moves(s) ==
    cheapest_from_layer(key(s) :> 0, key(new_finished(s.room_size)), None)

\* cells one step after those of the layer
grid_step(f, layer) ==
    cheapest_by_key(UNION { { <<n, layer[u] + f.cells[n]>> :
                                n \in SeqRange(neighbors(f, u[1], u[2])) } :
                            u \in DOMAIN layer })

RECURSIVE cheapest_within(_, _, _, _)
cheapest_within(f, layer, steps, best) ==
    IF steps = 0 THEN better(best, at(layer, <<f.width - 1, f.height - 1>>))
    ELSE cheapest_within(f, grid_step(f, layer), steps - 1,
                         better(best, at(layer, <<f.width - 1, f.height - 1>>)))

\* a cheapest walk never visits a cell twice, so width * height steps suffice
cheapest_walk(f) == cheapest_within(f, <<0, 0>> :> 0, f.width * f.height, None)

\* the cheapest walk from cell c to the bottom-right cell
cheapest_walk_from(f, c) == cheapest_within(f, c :> 0, f.width * f.height, None)

all_digits_positive(f) == \A c \in DOMAIN f.cells : f.cells[c] >= 1

(***************************************************************************)
(* Properties                                                              *)
(***************************************************************************)
returned_to_caller == pc # "running"

\* C1: for every start arrangement from which the finished arrangement is
\* reachable, find_minimal_score returns Some(c) with c the minimum, over all
\* sequences of moves of generate_next_states from the start to the finished
\* arrangement, of the sum of the move costs.
C1_MinimalScore ==
    (returned_to_caller /\ cheapest_moves(start) # None)
        => (pc = "done" /\ result = cheapest_moves(start))
C1_Witness ==
    /\ pc = "done"
    /\ result # None
    /\ result[1] > 0
    /\ result = cheapest_moves(start)
    /\ Cardinality(map_keys(known_paths)) > 50

\* C2 as stated: for every non-empty grid of digits 0 to 9, path_find returns
\* the minimum, over all paths of axis-aligned steps from the top-left to the
\* bottom-right cell, of the sum of the digits of the cells entered.
C2_AnyDigits == pc = "done" => result = cheapest_walk(field)
\* C2, for grids whose digits are all at least 1: path_find returns the
\* minimum, over all paths of axis-aligned steps from the top-left to the
\* bottom-right cell, of the sum of the digits of the cells entered.
C2_PositiveDigits ==
    (returned_to_caller /\ all_digits_positive(field))
        => (pc = "done" /\ result = cheapest_walk(field))
C2_Witness ==
    /\ pc = "done"
    /\ all_digits_positive(field)
    /\ field.width > 1
    /\ field.height > 1
    /\ result = cheapest_walk(field)
    /\ open_nodes # << >>

\* C3: for every grid whose digits are all at least 1, path_find with its
\* heuristic returns the same total cost as the same loop run with heuristic 0.
C3_SameAsDijkstra ==
    (returned_to_caller /\ heuristic = "zero" /\ all_digits_positive(field))
        => (pc = "done" /\ result = returned[1])
C3_Witness ==
    /\ pc = "done"
    /\ heuristic = "zero"
    /\ all_digits_positive(field)
    /\ field.width > 1
    /\ field.height > 1
    /\ result = returned[1]
    /\ result # None

\* C4: if no sequence of legal moves leads from the start arrangement to the
\* finished one, find_minimal_score returns None once the frontier is empty;
\* it does not panic and reports no cost.
C4_Exhausted ==
    (returned_to_caller /\ cheapest_moves(start) = None)
        => (pc = "done" /\ result = None /\ open_nodes = << >>)
C4_Witness ==
    /\ pc = "done"
    /\ result = None
    /\ open_nodes = << >>
    /\ cheapest_moves(start) = None
    /\ Cardinality(map_keys(known_paths)) > 1

\* C5: the cost find_minimal_score returns for a start arrangement is the same
\* under every order in which entries of equal score may be popped, and the
\* cost path_find returns for a grid is the same in every run.
C5_SameCostEveryRun ==
    returned_to_caller => (pc = "done" /\ \A i \in DOMAIN returned : returned[i] = result)
C5_Witness ==
    /\ pc = "done"
    /\ start # NoStart
    /\ returned # << >>
    /\ returned[1] = result
    /\ result # None
    /\ result[1] > 0

\* C6: pushing, at any point of a run, an extra frontier entry for a known
\* state with a cost worse than its ledger value does not change the cost
\* path_find or find_minimal_score finally returns.
C6_WorseEntryHarmless ==
    (returned_to_caller /\ injected > 0) => (pc = "done" /\ result = returned[1])
C6_Witness ==
    /\ pc = "done"
    /\ injected > 0
    /\ result = returned[1]
    /\ result # None
    /\ result[1] > 0

\* C7: on the 10x10 example grid of the day15 tests, path_find returns 40.
C7_ExamplePart1 ==
    (returned_to_caller /\ field = ExampleField) => (pc = "done" /\ result = Some(40))
C7_Witness == pc = "done" /\ field = ExampleField /\ result = Some(40)

\* C8: on the grid quintuple_field makes of the 10x10 example grid of the
\* day15 tests (the 50x50 tiling), path_find returns 315.
C8_ExamplePart2 ==
    (returned_to_caller /\ field = ExampleFieldTiled)
        => (pc = "done" /\ result = Some(315))
C8_Witness ==
    /\ pc = "done"
    /\ field = ExampleFieldTiled
    /\ field.width = 50
    /\ field.height = 50
    /\ result = Some(315)

\* C9: for the example burrow of the day23 tests with 2 slots per room,
\* find_minimal_score returns Some(12521).
C9_ExampleBurrow ==
    (returned_to_caller /\ start = ExampleBurrow) => (pc = "done" /\ result = Some(12521))
C9_Witness == pc = "done" /\ start = ExampleBurrow /\ result = Some(12521)

\* C10: for the example burrow of the day23 tests extended to 4 slots per room
\* by the rows D,C,B,A and D,B,A,C, find_minimal_score returns Some(44169).
C10_ExampleBurrowUnfolded ==
    (returned_to_caller /\ start = ExampleBurrowUnfolded)
        => (pc = "done" /\ result = Some(44169))
C10_Witness ==
    /\ pc = "done"
    /\ start = ExampleBurrowUnfolded
    /\ start.room_size = 4
    /\ result = Some(44169)

\* C11: every call terminates: from any start arrangement find_minimal_score,
\* and on any non-empty grid path_find, eventually leaves its loop and has
\* returned Some(cost) or None, after finitely many pops.
C11_Terminates == <>(pc = "done")
C11_Witness ==
    /\ pc = "done"
    /\ result # None
    /\ result[1] > 0
    /\ Cardinality(map_keys(known_paths)) > 3

\* C12: for every grid whose digits are all at least 1 and for every cell of
\* it, the heuristic value path_find adds for that cell (the Euclidean
\* distance to the bottom-right cell, truncated) never exceeds the minimum
\* cost of a walk from that cell to the bottom-right cell.
C12_Admissible ==
    (field # NoField /\ heuristic = "euclid" /\ all_digits_positive(field)) =>
        \A c \in DOMAIN field.cells :
            heuristic_of(<<field.width - 1, field.height - 1>>, c)
                <= cheapest_walk_from(field, c)[1]
C12_Witness ==
    /\ field # NoField
    /\ all_digits_positive(field)
    /\ \E i \in DOMAIN open_nodes :
          LET e == open_nodes[i]
              h == heuristic_of(<<field.width - 1, field.height - 1>>, e.node)
          IN /\ h >= 2
             /\ e.score = map_get(known_paths, e.node)[1] + h
             /\ h < cheapest_walk_from(field, e.node)[1]

\* C13 as stated: a popped entry whose cumulative cost exceeds the ledger's
\* value for its state is discarded without generating the state's
\* neighbours, and within one search the neighbours of each distinct state
\* are generated at most once.
C13_StaleDiscarded ==
    \A s \in map_keys(expanded) :
        /\ map_get(expanded, s)[1][2] = 0
        /\ map_get(expanded, s)[1][1] <= 1

(***************************************************************************)
(* The burrow as the puzzle draws it: hallway cells x = 0 .. 10, the rooms  *)
(* below x = 2, 4, 6, 8, tokens stopping only on the other hallway cells:   *)
(* the holding slots at x = 1, 0 (left: front, back) and x = 9, 10 (right), *)
(* the hallway spaces at x = 3, 5, 7.  A room's depth counts from the       *)
(* hallway: the slot next to it has depth 1.                                *)
(***************************************************************************)
door_x(room_id) == 2 + 2 * room_id
stop_cells == {0, 1, 3, 5, 7, 9, 10}
weight(t) == CASE t = "A" -> 1 [] t = "B" -> 10 [] t = "C" -> 100 [] t = "D" -> 1000
home(t) == CASE t = "A" -> 0 [] t = "B" -> 1 [] t = "C" -> 2 [] t = "D" -> 3

hallway_cell(s, x) ==
    CASE x = 0 -> s.hallway_storage[1][2]
      [] x = 1 -> s.hallway_storage[1][1]
      [] x = 3 -> s.hallway_spaces[1]
      [] x = 5 -> s.hallway_spaces[2]
      [] x = 7 -> s.hallway_spaces[3]
      [] x = 9 -> s.hallway_storage[2][1]
      [] x = 10 -> s.hallway_storage[2][2]
      [] OTHER -> NoToken

with_hallway_cell(s, x, t) ==
    CASE x = 0 -> [ s EXCEPT !.hallway_storage[1][2] = t ]
      [] x = 1 -> [ s EXCEPT !.hallway_storage[1][1] = t ]
      [] x = 3 -> [ s EXCEPT !.hallway_spaces[1] = t ]
      [] x = 5 -> [ s EXCEPT !.hallway_spaces[2] = t ]
      [] x = 7 -> [ s EXCEPT !.hallway_spaces[3] = t ]
      [] x = 9 -> [ s EXCEPT !.hallway_storage[2][1] = t ]
      [] x = 10 -> [ s EXCEPT !.hallway_storage[2][2] = t ]

distance(x, y) == IF x < y THEN y - x ELSE x - y
\* the hallway cells strictly between x and y are empty
way_clear(s, x, y) ==
    \A c \in 0 .. 10 : ((x < c /\ c < y) \/ (y < c /\ c < x)) => hallway_cell(s, c) = NoToken

\* the moves <<cost, arrangement>> of the top token of room room_id to the
\* empty stop cells it can reach through empty cells
moves_out_of(s, room_id) ==
    LET tokens == s.rooms[room_id + 1]
        top == tokens[Len(tokens)]
        depth == s.room_size - Len(tokens) + 1
    IN { << (depth + distance(door_x(room_id), x)) * weight(top),
            with_hallway_cell([ s EXCEPT !.rooms[room_id + 1] = SubSeq(tokens, 1, Len(tokens) - 1) ],
                              x, top) >> :
           x \in { c \in stop_cells : /\ hallway_cell(s, c) = NoToken
                                      /\ way_clear(s, door_x(room_id), c) } }

\* the move <<cost, arrangement>> of the token on stop cell x into its room:
\* the way is clear, the room is not full and holds only tokens of its type
moves_home_from(s, x) ==
    LET t == hallway_cell(s, x)
        tokens == s.rooms[home(t) + 1]
    IN IF /\ Len(tokens) < s.room_size
          /\ \A i \in DOMAIN tokens : tokens[i] = t
          /\ way_clear(s, x, door_x(home(t)))
       THEN { << (distance(x, door_x(home(t))) + s.room_size - Len(tokens)) * weight(t),
                 [ with_hallway_cell(s, x, NoToken) EXCEPT !.rooms[home(t) + 1] = Append(tokens, t) ] >> }
       ELSE {}

moves_home(s) ==
    UNION { moves_home_from(s, x) : x \in { c \in stop_cells : hallway_cell(s, c) # NoToken } }

\* every legal single-token move
legal_moves(s) ==
    UNION { moves_out_of(s, r) : r \in { q \in 0 .. 3 : s.rooms[q + 1] # << >> } }
        \cup moves_home(s)

\* the same without the moves out of a room that holds only tokens of its own type
legal_moves_unsettled(s) ==
    UNION { moves_out_of(s, r) :
              r \in { q \in 0 .. 3 : \E i \in DOMAIN s.rooms[q + 1] :
                                         home(s.rooms[q + 1][i]) # q } }
        \cup moves_home(s)

arrangements(moves) == { m[2] : m \in moves }

\* how many of the heap's entries equal e
entries_equal(heap, e) == Cardinality({ i \in DOMAIN heap : heap[i] = e })

\* C14: every pop of the frontier in path_find and in find_minimal_score
\* removes an entry whose score is minimal among all entries in the frontier
\* at that moment.  (The entry an iteration removes is the one the heap holds
\* fewer of afterwards: what an iteration pushes is cheaper than the ledger's
\* value, hence differs from the entry popped.)
C14_PopsMinimum ==
    [][ pc = "running" =>
          \A i \in DOMAIN open_nodes :
              entries_equal(open_nodes', open_nodes[i]) < entries_equal(open_nodes, open_nodes[i])
                  => \A j \in DOMAIN open_nodes : open_nodes[i].score <= open_nodes[j].score
      ]_vars
C14_Witness ==
    /\ pc = "running"
    /\ Cardinality(map_keys(expanded)) >= 2
    /\ \E i, j \in DOMAIN open_nodes : open_nodes[i].score < open_nodes[j].score
    /\ \E i \in DOMAIN open_nodes :
          \A s \in map_keys(known_paths) : open_nodes[i].score > map_get(known_paths, s)[1]

\* C15 as stated: in day15 the two orderings of PathFindEntry agree: for
\* every pair of entries a and b (here: of the entries path_find holds in its
\* heap), Ord::cmp(a, b) equals PartialOrd::partial_cmp(a, b).
C15_OrderingsAgree ==
    field # NoField =>
        \A i, j \in DOMAIN open_nodes :
            PathFindEntry15_cmp(open_nodes[i], open_nodes[j])
                = PathFindEntry15_partial_cmp(open_nodes[i], open_nodes[j])

\* the state an entry of either heap is for, and the cumulative cost it carries
entry_state(e) == IF "state" \in DOMAIN e THEN e.state ELSE e.node
entry_cost(e) ==
    IF "state" \in DOMAIN e THEN e.score
    ELSE e.score - heuristic_of(<<field.width - 1, field.height - 1>>, e.node)
\* the step removes the heap's entry e
pops(e) == entries_equal(open_nodes', e) < entries_equal(open_nodes, e)
\* e is for a state whose neighbours were generated before, at a cost not worse
expanded_before(e) ==
    /\ map_contains_key(expanded, entry_state(e))
    /\ entry_cost(e) >= map_get(expanded, entry_state(e))[1][3]

\* C16: when a state that has already been expanded is popped again, through
\* an entry with a worse or equal cost, the second expansion is a no-op: it
\* changes no ledger value and no predecessor entry and pushes no entry.
C16_ReexpansionNoOp ==
    [][ pc = "running" =>
          \A i \in DOMAIN open_nodes :
              (pops(open_nodes[i]) /\ expanded_before(open_nodes[i])) =>
                  /\ known_paths' = known_paths
                  /\ preds' = preds
                  /\ Len(open_nodes') = Len(open_nodes) - 1
                  /\ \A j \in DOMAIN open_nodes' :
                        entries_equal(open_nodes', open_nodes'[j])
                            <= entries_equal(open_nodes, open_nodes'[j])
      ]_vars
C16_Witness ==
    \E s \in map_keys(expanded) :
        /\ map_get(expanded, s)[1][1] >= 2
        /\ map_get(expanded, s)[1][2] >= 1
        /\ map_get(expanded, s)[1][3] = map_get(known_paths, s)[1]

\* the goal of the running call: the finished arrangement, the bottom-right cell
goal_state ==
    IF start # NoStart THEN key(new_finished(start.room_size))
    ELSE <<field.width - 1, field.height - 1>>

\* C17: when the goal state is popped, the search returns the cumulative cost
\* carried by the popped entry: the ledger value returned for the goal equals
\* the score under which that entry was pushed (the first goal entry popped
\* is never stale).
C17_GoalEntryFresh ==
    [][ (pc = "running" /\ pc' = "done" /\ result' # None) =>
          /\ \E i \in DOMAIN open_nodes : pops(open_nodes[i])
          /\ \A i \in DOMAIN open_nodes :
                pops(open_nodes[i]) =>
                    /\ entry_state(open_nodes[i]) = goal_state
                    /\ open_nodes[i].score = result'[1]
                    /\ entry_cost(open_nodes[i]) = result'[1]
                    /\ map_get(known_paths, goal_state) = result'
      ]_vars
C17_Witness ==
    /\ pc = "done"
    /\ result # None
    /\ result[1] > 0
    /\ result = map_get(known_paths, goal_state)
    /\ \E i \in DOMAIN open_nodes :
          /\ entry_state(open_nodes[i]) = goal_state
          /\ entry_cost(open_nodes[i]) > result[1]

\* the states whose ledger value the step sets or changes
relaxed_states ==
    { s \in map_keys(known_paths') : map_get(known_paths', s) # map_get(known_paths, s) }

\* C18: for every state the ledger value never increases during a run, and
\* the ledger, the frontier and the predecessor map change for a neighbour
\* only when the candidate cost is strictly lower than the recorded one or the
\* neighbour is unseen: an iteration pushes exactly one entry per state whose
\* ledger value it lowers or sets, carrying that value, and changes the
\* predecessor of no other state.
C18_LedgerOnlyImproves ==
    [][ pc = "running" =>
          /\ \A s \in map_keys(known_paths) :
                /\ map_contains_key(known_paths', s)
                /\ map_get(known_paths', s)[1] <= map_get(known_paths, s)[1]
          /\ \A j \in DOMAIN open_nodes' :
                entries_equal(open_nodes', open_nodes'[j]) > entries_equal(open_nodes, open_nodes'[j])
                    => /\ entry_state(open_nodes'[j]) \in relaxed_states
                       /\ Some(entry_cost(open_nodes'[j]))
                             = map_get(known_paths', entry_state(open_nodes'[j]))
          /\ open_nodes # << >>
                => Len(open_nodes') = Len(open_nodes) - 1 + Cardinality(relaxed_states)
          /\ \A s \in map_keys(preds') :
                map_get(preds', s) # map_get(preds, s) => s \in relaxed_states
      ]_vars
C18_Witness ==
    /\ pc = "running"
    /\ \E i \in DOMAIN open_nodes :
          /\ map_contains_key(expanded, entry_state(open_nodes[i]))
          /\ entry_cost(open_nodes[i]) > map_get(known_paths, entry_state(open_nodes[i]))[1]
          /\ map_get(known_paths, entry_state(open_nodes[i]))[1] > 0

\* C19 as stated: generate_next_states returns every legal single-token move
\* of an arrangement: for the top token of each room, a move to every hallway
\* space and holding slot reachable through empty cells, and for each hallway
\* or holding token, the move into its target room whenever the way is clear,
\* the room is not full and holds only tokens of that type.
C19_EveryLegalMove ==
    start # NoStart =>
        arrangements(legal_moves(start))
            \subseteq arrangements(SeqRange(generate_next_states(start)))
\* C19, for the rooms that hold a token of another type: generate_next_states
\* returns, for the top token of each room that holds at least one token not
\* of the room's type, a move to every hallway space and holding slot
\* reachable through empty cells, and for each hallway or holding token, the
\* move into its target room whenever the way is clear, the room is not full
\* and holds only tokens of that type.
C19_EveryUnsettledMove ==
    start # NoStart =>
        arrangements(legal_moves_unsettled(start))
            \subseteq arrangements(SeqRange(generate_next_states(start)))
C19_Witness ==
    /\ start # NoStart
    /\ Cardinality(arrangements(legal_moves_unsettled(start))) >= 5
    /\ moves_home(start) # {}
    /\ arrangements(legal_moves_unsettled(start))
          = arrangements(SeqRange(generate_next_states(start)))
    /\ \E x \in {0, 10} : hallway_cell(start, x) # NoToken

\* C20: the cost of every move generate_next_states returns equals the number
\* of cells stepped through in the burrow's geometry (hallway cells x = 0..10,
\* rooms below x = 2, 4, 6, 8, holding slots at x = 1, 0 and x = 9, 10,
\* hallway spaces at x = 3, 5, 7, room depth counted from the hallway) times
\* the moved token's per-step weight (A = 1, B = 10, C = 100, D = 1000).
C20_CostIsStepsTimesWeight ==
    start # NoStart =>
        \A m \in SeqRange(generate_next_states(start)) :
            \E l \in legal_moves(start) : l[2] = m[2] /\ l[1] = m[1]
C20_Witness ==
    /\ start # NoStart
    /\ start.room_size = 2
    /\ SeqRange(generate_next_states(start)) \subseteq legal_moves(start)
    /\ \E x \in {0, 10} :
          /\ hallway_cell(start, x) # NoToken
          /\ moves_home_from(start, x) # {}
          /\ moves_home_from(start, x) \subseteq SeqRange(generate_next_states(start))
    /\ \E m \in SeqRange(generate_next_states(start)) :
          m[1] >= 5000 /\ m \notin moves_home(start)


\* the stop cells and the rooms whose content differs between two arrangements
cells_changed(s, after) == { x \in stop_cells : hallway_cell(s, x) # hallway_cell(after, x) }
rooms_changed(s, after) == { r \in 0 .. 3 : s.rooms[r + 1] # after.rooms[r + 1] }

\* C21: no move returned by generate_next_states passes through or ends on an
\* occupied cell: every hallway space and holding slot between the source and
\* the destination, and the destination itself, is empty in the source
\* arrangement; in particular the back holding slot is entered or left only
\* when the front slot of the same side is empty.  (A move is between one stop
\* cell x and one room r: out of the room when x fills, into it when x empties.)
C21_NoMoveThroughOccupied ==
    start # NoStart =>
        \A m \in SeqRange(generate_next_states(start)) :
            \E x \in stop_cells, r \in 0 .. 3 :
                /\ cells_changed(start, m[2]) = {x}
                /\ rooms_changed(start, m[2]) = {r}
                /\ way_clear(start, x, door_x(r))
                /\ \/ /\ hallway_cell(start, x) = NoToken
                      /\ hallway_cell(m[2], x) # NoToken
                      /\ Len(m[2].rooms[r + 1]) = Len(start.rooms[r + 1]) - 1
                   \/ /\ hallway_cell(m[2], x) = NoToken
                      /\ hallway_cell(start, x) # NoToken
                      /\ Len(start.rooms[r + 1]) < start.room_size
                      /\ Len(m[2].rooms[r + 1]) = Len(start.rooms[r + 1]) + 1
                /\ x = 0 => hallway_cell(start, 1) = NoToken
                /\ x = 10 => hallway_cell(start, 9) = NoToken
\* a token waits on a back slot behind an occupied front slot while its room
\* could take it, a room's top token has an empty stop cell it cannot reach,
\* and moves both out of a room and into a room are returned
C21_Witness ==
    /\ start # NoStart
    /\ \E side \in {<<0, 1>>, <<10, 9>>} :
          /\ hallway_cell(start, side[1]) # NoToken
          /\ hallway_cell(start, side[2]) # NoToken
          /\ ~ cannot_enter(start, target_room(hallway_cell(start, side[1])))
    /\ \E r \in 0 .. 3, c \in stop_cells :
          /\ \E i \in DOMAIN start.rooms[r + 1] : home(start.rooms[r + 1][i]) # r
          /\ hallway_cell(start, c) = NoToken
          /\ ~ way_clear(start, door_x(r), c)
    /\ \E m \in SeqRange(generate_next_states(start)) :
          \E r \in 0 .. 3 : Len(m[2].rooms[r + 1]) < Len(start.rooms[r + 1])
    /\ \E m \in SeqRange(generate_next_states(start)) :
          \E r \in 0 .. 3 : Len(m[2].rooms[r + 1]) > Len(start.rooms[r + 1])


\* room r holds at least one token and only tokens of its own type
settled(s, r) ==
    /\ s.rooms[r + 1] # << >>
    /\ \A i \in DOMAIN s.rooms[r + 1] : s.rooms[r + 1][i] = room_token(r)

\* C22: a token enters a room only if it is that token's target room, the
\* room is not full, and every token already in the room is of the same type;
\* consequently, once a token has entered a room it stays there in every later
\* arrangement of any move sequence.  (Step by step: a move that makes a room
\* longer appends a token of the room's type to a room that is not full and
\* holds only that type, and a move from an arrangement in which a room holds
\* only tokens of its type keeps all of that room's tokens in place.)
C22_EntersOnlyHome ==
    [][ (start # NoStart /\ start' # start) =>
          \A r \in 0 .. 3 :
              /\ Len(start'.rooms[r + 1]) > Len(start.rooms[r + 1]) =>
                    /\ target_room(last(start'.rooms[r + 1])) = r
                    /\ Len(start.rooms[r + 1]) < start.room_size
                    /\ \A i \in DOMAIN start.rooms[r + 1] :
                          start.rooms[r + 1][i] = last(start'.rooms[r + 1])
                    /\ start'.rooms[r + 1]
                          = Append(start.rooms[r + 1], last(start'.rooms[r + 1]))
                    /\ settled(start', r)
              /\ settled(start, r) =>
                    /\ Len(start'.rooms[r + 1]) >= Len(start.rooms[r + 1])
                    /\ SubSeq(start'.rooms[r + 1], 1, Len(start.rooms[r + 1]))
                          = start.rooms[r + 1]
                    /\ settled(start', r)
      ]_vars
\* the example burrow after both B tokens have entered room 1, which held D
\* and C, while room 3 still holds the A it started with and moves remain
C22_Witness ==
    /\ start # NoStart
    /\ start.room_size = 2
    /\ start.rooms[2] = <<"B", "B">>
    /\ start.rooms[4] # << >>
    /\ start.rooms[4][1] = "A"
    /\ generate_next_states(start) # << >>


\* an upper bound of the moves the tokens of an arrangement still have: two
\* (out of the room, into its own) for each token of a room that holds a token
\* of another type, one for each token in the hallway, none for the others
unsorted_tokens(s, r) ==
    IF \E i \in DOMAIN s.rooms[r + 1] : s.rooms[r + 1][i] # room_token(r)
    THEN Len(s.rooms[r + 1]) ELSE 0
moves_left(s) ==
    Cardinality({ x \in stop_cells : hallway_cell(s, x) # NoToken })
        + 2 * (unsorted_tokens(s, 0) + unsorted_tokens(s, 1)
                 + unsorted_tokens(s, 2) + unsorted_tokens(s, 3))

\* C23: along any sequence of moves each token moves at most twice (at most
\* once out of a room and at most once into a room); hence no arrangement is
\* reachable from itself and every move sequence has at most 2 x 4 x room_size
\* moves.  (Every move takes at least one from the moves the tokens still
\* have, which are at most two per token and never fewer than none.)
C23_AtMostTwoMovesPerToken ==
    [][ (start # NoStart /\ start' # NoStart) =>
          /\ moves_left(start) <= 2 * 4 * start.room_size
          /\ start' # start =>
                /\ moves_left(start') < moves_left(start)
                /\ moves_left(start') >= 0
          /\ \A i \in DOMAIN generate_next_states(start) :
                generate_next_states(start)[i][2] # start
      ]_vars
\* the example burrow after room 2, which held C and B, has taken both C
\* tokens, in an arrangement that is not finished and has no move left
C23_Witness ==
    /\ start # NoStart
    /\ start.room_size = 2
    /\ start.rooms[3] = <<"C", "C">>
    /\ start.rooms[4] # << >>
    /\ start.rooms[4][1] = "A"
    /\ moves_left(start) > 0
    /\ generate_next_states(start) = << >>


\* how many tokens of type t an arrangement holds, in rooms and hallway
token_count(s, t) ==
    Cardinality({ x \in stop_cells : hallway_cell(s, x) = t })
        + Cardinality({ <<r, i>> \in (0 .. 3) \X (1 .. 2 * 4 * s.room_size) :
                          i <= Len(s.rooms[r + 1]) /\ s.rooms[r + 1][i] = t })
\* room_size tokens of each type, no room holding more than room_size
well_formed(s) ==
    /\ s.room_size >= 1
    /\ \A t \in Token : token_count(s, t) = s.room_size
    /\ \A r \in 0 .. 3 : Len(s.rooms[r + 1]) <= s.room_size

\* C24: every arrangement reachable from a well-formed start is well-formed:
\* each move relocates exactly one token and leaves every other room, hallway
\* space and holding slot unchanged, so the multiset of tokens is preserved,
\* and no room ever holds more than room_size tokens, so room_size - len in
\* the cost computation never underflows.
C24_WellFormedPreserved ==
    [][ (start # NoStart /\ start' # NoStart /\ well_formed(start)) =>
          /\ \A r \in 0 .. 3 :
                /\ room_exit_cost(start, r) \in 0 .. start.room_size
                /\ room_enter_cost(start, r) \in 0 .. start.room_size
          /\ start' # start =>
                /\ well_formed(start')
                /\ start'.room_size = start.room_size
                /\ \A t \in Token : token_count(start', t) = token_count(start, t)
                /\ \E x \in stop_cells, r \in 0 .. 3 :
                      /\ cells_changed(start, start') = {x}
                      /\ rooms_changed(start, start') = {r}
                      /\ \/ /\ hallway_cell(start, x) = NoToken
                            /\ start.rooms[r + 1]
                                  = Append(start'.rooms[r + 1], hallway_cell(start', x))
                         \/ /\ hallway_cell(start', x) = NoToken
                            /\ start'.rooms[r + 1]
                                  = Append(start.rooms[r + 1], hallway_cell(start, x))
      ]_vars
\* an arrangement of depth 2 some moves into a sequence: a token on a back
\* holding slot, one room emptied, another one full
C24_Witness ==
    /\ start # NoStart
    /\ start.room_size = 2
    /\ well_formed(start)
    /\ \E x \in {0, 10} : hallway_cell(start, x) # NoToken
    /\ \E r \in 0 .. 3 : room_exit_cost(start, r) = start.room_size
    /\ \E r \in 0 .. 3 : room_enter_cost(start, r) = 0
    /\ Len(generate_next_states(start)) >= 3


\* the token a move from arrangement s to arrangement after relocates
moved_token(s, after) ==
    LET x == CHOOSE c \in stop_cells : hallway_cell(s, c) # hallway_cell(after, c)
    IN IF hallway_cell(s, x) # NoToken THEN hallway_cell(s, x) ELSE hallway_cell(after, x)

\* C25: every move returned by generate_next_states from a reachable
\* arrangement has a strictly positive cost, at least twice the moved token's
\* per-step weight; no edge of the puzzle graph has cost 0.
C25_CostAtLeastTwoSteps ==
    start # NoStart =>
        \A i \in DOMAIN generate_next_states(start) :
            LET m == generate_next_states(start)[i] IN
                /\ m[1] > 0
                /\ m[1] >= 2 * specific_cost(moved_token(start, m[2]))
\* an arrangement some moves into a sequence (a holding slot is taken) with a
\* move of exactly two steps into a room, one of exactly two steps out of a
\* room, and a longer one
C25_Witness ==
    /\ start # NoStart
    /\ \E x \in {0, 1, 9, 10} : hallway_cell(start, x) # NoToken
    /\ \E i, j, k \in DOMAIN generate_next_states(start) :
          LET next_states == generate_next_states(start) IN
          /\ next_states[i][1] = 2 * specific_cost(moved_token(start, next_states[i][2]))
          /\ \E r \in 0 .. 3 : Len(next_states[i][2].rooms[r + 1]) > Len(start.rooms[r + 1])
          /\ next_states[j][1] = 2 * specific_cost(moved_token(start, next_states[j][2]))
          /\ \E r \in 0 .. 3 : Len(next_states[j][2].rooms[r + 1]) < Len(start.rooms[r + 1])
          /\ next_states[k][1] >= 5 * specific_cost(moved_token(start, next_states[k][2]))


\* how many predecessor entries lead from `state` back to the start
\* arrangement, having taken n already; -1 if the chain meets a state without
\* an entry, or more than 2 x 4 x room_size entries
RECURSIVE steps_back(_, _)
steps_back(state, n) ==
    IF state = key(start) THEN n
    ELSE IF ~map_contains_key(preds, state) \/ n >= 2 * 4 * start.room_size THEN -1
    ELSE steps_back(map_get(preds, state)[1][2], n + 1)

\* C26: whenever find_minimal_score pops the goal, walking the predecessor
\* map backward from the goal reaches the start arrangement in finitely many
\* steps and never meets a non-start state without a predecessor entry (which
\* would panic); the start arrangement itself never acquires a predecessor
\* entry and its ledger value stays 0.
C26_WalkReachesStart ==
    start # NoStart =>
        /\ pc \in {"running", "done"}
        /\ ~map_contains_key(preds, key(start))
        /\ map_get(known_paths, key(start)) = Some(0)
        /\ (pc = "done" /\ result # None) =>
              /\ walk_back(search_state, goal_state, {}) = "returns"
              /\ steps_back(goal_state, 0) >= 0
\* a call has returned a cost for a goal at least four moves from the start
C26_Witness ==
    /\ start # NoStart
    /\ pc = "done"
    /\ result # None
    /\ walk_back(search_state, goal_state, {}) = "returns"
    /\ steps_back(goal_state, 0) >= 4
    /\ Cardinality(map_keys(preds)) > steps_back(goal_state, 0)


\* the sum of the edge costs the predecessor map records along the chain from
\* `state` back to the start arrangement (the chain is followed for at most
\* `fuel` entries)
RECURSIVE cost_back(_, _)
cost_back(state, fuel) ==
    IF state = key(start) \/ fuel = 0 \/ ~map_contains_key(preds, state) THEN 0
    ELSE map_get(preds, state)[1][1] + cost_back(map_get(preds, state)[1][2], fuel - 1)

\* C27: when find_minimal_score reaches Found, the edge costs recorded in the
\* predecessor map along the chain from the goal back to the start sum exactly
\* to the returned total cost.
C27_ChainSumsToResult ==
    (start # NoStart /\ pc = "done" /\ result # None) =>
        /\ steps_back(goal_state, 0) >= 0
        /\ cost_back(goal_state, steps_back(goal_state, 0)) = result[1]
\* a call has returned the cost of a chain of at least three moves whose edge
\* costs are not all the same, with recorded moves that are not on the chain
C27_Witness ==
    /\ start # NoStart
    /\ pc = "done"
    /\ result # None
    /\ steps_back(goal_state, 0) >= 3
    /\ cost_back(goal_state, steps_back(goal_state, 0)) = result[1]
    /\ result[1] # steps_back(goal_state, 0) * map_get(preds, goal_state)[1][1]
    /\ \E s \in map_keys(preds) :
          map_get(known_paths, s)[1] > result[1]


\* the cumulative cost g under which a heap entry was pushed: the score of
\* an entry of find_minimal_score and of the entry path_find pushes for (0, 0)
\* before its loop, the score less the heuristic for the others of path_find
pushed_cost(e) ==
    IF "state" \in DOMAIN e \/ e.node = <<0, 0>> THEN e.score ELSE entry_cost(e)

\* C28: at every point of a run of path_find or find_minimal_score, every
\* state that has an entry in the frontier also has a ledger entry, and that
\* ledger value is less than or equal to the cumulative cost g under which the
\* entry was pushed; so the ledger lookup for a popped state never fails.
C28_FrontierHasLedger ==
    /\ pc # "panic"
    /\ \A i \in DOMAIN open_nodes :
          /\ map_contains_key(known_paths, entry_state(open_nodes[i]))
          /\ map_get(known_paths, entry_state(open_nodes[i]))[1] <= pushed_cost(open_nodes[i])
\* the frontier of a running call holds two entries for one state, pushed at
\* different costs, the ledger holding the lower of the two, and an entry for
\* another state
C28_Witness ==
    /\ pc = "running"
    /\ \E i, j, k \in DOMAIN open_nodes :
          /\ entry_state(open_nodes[i]) = entry_state(open_nodes[j])
          /\ pushed_cost(open_nodes[i]) < pushed_cost(open_nodes[j])
          /\ map_get(known_paths, entry_state(open_nodes[i]))[1] = pushed_cost(open_nodes[i])
          /\ entry_state(open_nodes[k]) # entry_state(open_nodes[i])
          /\ map_get(known_paths, entry_state(open_nodes[k]))[1] = pushed_cost(open_nodes[k])


\* C29 as stated: in each of the two searches the order of frontier entries
\* with equal f is fixed by an explicit secondary key on the state: two
\* entries (here: of the running call's heap) with equal score but different
\* states never compare as equal, under the comparison the heap orders them by.
C29_TiesBrokenByState ==
    \A i, j \in DOMAIN open_nodes :
        (/\ open_nodes[i].score = open_nodes[j].score
         /\ entry_state(open_nodes[i]) # entry_state(open_nodes[j]))
            => IF start # NoStart
               THEN PathFindEntry23_partial_cmp(open_nodes[i], open_nodes[j]) # "Equal"
               ELSE PathFindEntry15_partial_cmp(open_nodes[i], open_nodes[j]) # "Equal"


\* C30: for every input grid of width w and height h with digits 1 to 9,
\* quintuple_field returns a 5w x 5h grid whose cell (i*w + x, j*h + y), for
\* tiles i, j in 0..4, equals ((input(x, y) + i + j - 1) mod 9) + 1; so every
\* value stays in 1..9, values above 9 wrap to 1, tile (0,0) equals the input,
\* and the u32 subtraction never underflows.
C30_TilesWrap ==
    [][ (/\ pc = "parsed"
         /\ field # NoField
         /\ \A c \in DOMAIN field.cells : field.cells[c] \in 1 .. 9) =>
          /\ pc' # "panic"
          /\ ~quintuple_field_underflows(field)
          /\ pc' # pc =>
                /\ field'.width = 5 * field.width
                /\ field'.height = 5 * field.height
                /\ DOMAIN field'.cells = coords(5 * field.width, 5 * field.height)
                /\ \A i, j \in 0 .. 4 :
                      \A x \in 0 .. field.width - 1, y \in 0 .. field.height - 1 :
                          LET input == field.cells[<<x, y>>]
                              tiled == field'.cells[<<i * field.width + x, j * field.height + y>>]
                          IN /\ tiled = ((input + i + j - 1) % 9) + 1
                             /\ tiled \in 1 .. 9
                             /\ input + i + j > 9 => tiled = input + i + j - 9
                             /\ (i = 0 /\ j = 0) => tiled = input
      ]_vars
\* the tiled field of the one-column input 9, 1, 5: 5 x 15 cells in 1..9,
\* tile (0,0) the input, 9 wrapped to 1 in tile (1,0) and 5 grown to 4 in
\* tile (4,4)
C30_Witness ==
    /\ pc = "running"
    /\ field # NoField
    /\ field.width = 5
    /\ field.height = 15
    /\ field.cells[<<0, 0>>] = 9
    /\ field.cells[<<0, 1>>] = 1
    /\ field.cells[<<0, 2>>] = 5
    /\ field.cells[<<1, 0>>] = 1
    /\ field.cells[<<4, 14>>] = 4
    /\ \A c \in DOMAIN field.cells : field.cells[c] \in 1 .. 9

=============================================================================
